---- MODULE Spec2Model ----
(***************************************************************************)
(* A model of get_ref_key.py: the orchestrator main() with its proxy       *)
(* retry through main_with_retry(), RefToolsAutomation.signup() with its   *)
(* retry loop, and GuerrillaMailClient.poll_for_email() with its clock.    *)
(*                                                                         *)
(* Spec      the run of main(): one frame per invocation of main().        *)
(* SpecPoll  one call of poll_for_email(timeout) against a mailbox whose   *)
(*           answers and latencies are chosen by the environment.          *)
(***************************************************************************)
EXTENDS Integers, Sequences, FiniteSets, TLC

VARIABLES
    DEBUG,          \* module global DEBUG (line 48)
    USE_PROXY,      \* module global USE_PROXY (line 49)
    frames,         \* one record of locals per invocation of main(), in call order
    cur,            \* index of the executing invocation; 0 once the run has returned
    console,        \* what console.print has shown, one record per message
    fetchCalls,     \* number of calls of fetch_proxies() so far
    mailCount,      \* number of addresses the mail provider has issued
    pwCount,        \* number of passwords _generate_password() has produced
    raised,         \* an exception is propagating out of main() (DEBUG re-raise)
    attempt,        \* signup(): the loop variable of the current call
    signupTrace,    \* signup(): what the call did, in order, until main moves on
    signupResult,   \* signup(): "idle", "running", or what it returned: "True", "False"
    mode,           \* which entry point is modelled: "main", "poll", "close", "key", "link"
    timeout,        \* poll_for_email(): its parameter
    now,            \* poll_for_email(): loop.time() - start_time, in seconds
    poll_count,     \* poll_for_email(): its local poll_count
    ppc,            \* poll_for_email(): position in the call
    inbox,          \* poll_for_email(): the part of email_list still to examine
    roundStart,     \* poll_for_email(): value of now when the last round began
    roundLatency,   \* poll_for_email(): seconds the requests of the last round took
    roundFetches,   \* poll_for_email(): fetch_email requests of the current round
    fetchedIds,     \* poll_for_email(): mail_id of the bodies fetched in the current round
    pollResult,     \* poll_for_email(): "pending", None, a link, or "raised"
    rv,             \* request_verification_email(): what the call did, until main moves on
    obj,            \* a RefToolsAutomation on its own: its context and what was called on it
    arg,            \* the argument of the function under study ("key", "link" modes)
    res             \* its result, "pending" before the call

mainVars == <<DEBUG, USE_PROXY, frames, cur, console, fetchCalls, mailCount,
              pwCount, raised, attempt, signupTrace, signupResult>>
pollVars == <<timeout, now, poll_count, ppc, inbox, roundStart, roundLatency, roundFetches,
              fetchedIds, pollResult>>
restVars == <<rv, obj, arg, res>>
vars == <<mainVars, pollVars, mode, restVars>>

----------------------------------------------------------------------------
(* Bounds of the model *)

\* main() calls itself through main_with_retry() without a bound of its own:
\* the model stops starting invocations at this depth.
MaxAttempts == 2
\* poll_for_email(timeout) is explored for every timeout in 0..MaxTimeout and
\* for the default MAX_EMAIL_WAIT_TIME.
MaxTimeout == 7
\* a request to the mail provider takes 0..MaxLatency seconds.
MaxLatency == 1
\* calls made on one RefToolsAutomation
MaxOps == 5

(* Constants of the program *)
EMAIL_CHECK_INTERVAL == 3
MAX_EMAIL_WAIT_TIME == 120
SIGNUP_MAX_RETRIES == 3
SIGNUP_RETRY_DELAY == 5
MAX_PROXY_RETRIES == 5
SIGNUP_FALLBACK_WAIT == 3

None == "None"

----------------------------------------------------------------------------
(* Sequences *)

\* all orders random.shuffle can leave a list in
Shuffles(s) ==
    LET n == Len(s)
        perms == {p \in [1..n -> 1..n] : \A i, j \in 1..n : i # j => p[i] # p[j]}
    IN {[i \in 1..n |-> s[p[i]]] : p \in perms}

----------------------------------------------------------------------------
(* fetch_proxies *)

\* str.strip() on the lines the model's sources serve
Strip == [l \in {"", " ", "p1", " p3 "} |->
            CASE l = " " -> "" [] l = " p3 " -> "p3" [] OTHER -> l]

\* what the first source of PROXY_LIST_URLS can do: raise (unreachable,
\* timeout), or answer with a status and a text, given here as its lines
SourceAnswers ==
    [raises : {TRUE}, status : {0}, lines : {<<>>}]
    \cup [raises : {FALSE}, status : {404}, lines : {<<"p1">>}]
    \cup [raises : {FALSE}, status : {200}, lines : {<<>>, <<"p1", "", " ">>}]

\* what the second source of PROXY_LIST_URLS can do
SourceAnswers2 ==
    [raises : {TRUE}, status : {0}, lines : {<<>>}]
    \cup [raises : {FALSE}, status : {200}, lines : {<<" p3 ">>}]

RECURSIVE StrippedNonEmpty(_)
\* line 89: [line.strip() for line in text.split('\n') if line.strip()]
StrippedNonEmpty(lines) ==
    IF lines = <<>> THEN <<>>
    ELSE IF Strip[Head(lines)] # ""
         THEN <<Strip[Head(lines)]>> \o StrippedNonEmpty(Tail(lines))
         ELSE StrippedNonEmpty(Tail(lines))

\* fetch_proxies without the test of line 87
ProxyLines_AnyStatus(a) == IF a.raises THEN <<>> ELSE StrippedNonEmpty(a.lines)

\* lines 85-94: what one source adds to proxies
ProxyLines(a) ==
    IF a.raises \/ a.status # 200 THEN <<>> ELSE StrippedNonEmpty(a.lines)

RECURSIVE ExtendAll(_)
\* lines 84-94: proxies after the loop over PROXY_LIST_URLS
ExtendAll(answers) ==
    IF answers = <<>> THEN <<>>
    ELSE ProxyLines(Head(answers)) \o ExtendAll(Tail(answers))

\* lines 80-100: the lists fetch_proxies() can return for the answers given
fetch_proxies(answers) ==
    LET proxies == ExtendAll(answers)
    IN IF proxies # <<>> THEN Shuffles(proxies) ELSE {proxies}

----------------------------------------------------------------------------
(* GuerrillaMailClient: strings are sequences of characters *)

\* str.lower() on the characters the model's messages use
LowerChar(c) ==
    CASE c = "R" -> "r" [] c = "E" -> "e" [] c = "F" -> "f" [] c = "V" -> "v"
      [] c = "I" -> "i" [] c = "Y" -> "y" [] c = "O" -> "o" [] c = "D" -> "d"
      [] c = "C" -> "c" [] c = "S" -> "s" [] OTHER -> c

Lower(str) == [i \in DOMAIN str |-> LowerChar(str[i])]

\* needle in hay, for Python strings
In(needle, hay) ==
    \E i \in 1..(Len(hay) - Len(needle) + 1) :
        SubSeq(hay, i, i + Len(needle) - 1) = needle

\* line 192: the sender-or-subject test
Flagged(email) ==
    LET sender == Lower(email.mail_from)
        subject == email.mail_subject
    IN In(<<"r", "e", "f">>, sender) \/ In(<<"v", "e", "r", "i", "f", "y">>, Lower(subject))

\* A mail body is a sequence of whitespace-separated tokens. A token that is a
\* URL is [url, host, path]: host is TRUE for http(s)://ref.tools/ and
\* http(s)://www.ref.tools/, path is what follows, in pieces.
Url(u, h, p) == [url |-> u, host |-> h, path |-> p]

\* lines 236-241: the four patterns, as tests on one token
Pattern(n, tok) ==
    /\ tok.host
    /\ CASE n = 1 -> Len(tok.path) >= 2 /\ tok.path[1] = "verify"
         [] n = 2 -> Len(tok.path) >= 2 /\ tok.path[1] = "confirm"
         [] n = 3 -> \E i \in DOMAIN tok.path : tok.path[i] = "verify"
         [] n = 4 -> \E i \in DOMAIN tok.path : tok.path[i] = "confirm"

\* re.search(pattern, body): the first match in the body, or None
Search(n, body) ==
    IF \E i \in DOMAIN body : Pattern(n, body[i])
    THEN body[CHOOSE i \in DOMAIN body :
                /\ Pattern(n, body[i])
                /\ \A j \in 1..(i - 1) : ~Pattern(n, body[j])].url
    ELSE None

\* the earliest link of the body that any of the patterns from n on matches
FirstMatch_ByPosition(n, body) ==
    LET hits == {i \in DOMAIN body : \E k \in n..4 : Pattern(k, body[i])}
    IN IF hits = {} THEN None
       ELSE body[CHOOSE i \in hits : \A j \in hits : i <= j].url

RECURSIVE FirstMatch(_, _)
\* lines 243-251: the first pattern that matches decides
FirstMatch(n, body) ==
    IF n > 4 THEN None
    ELSE IF Search(n, body) # None THEN Search(n, body)
    ELSE FirstMatch(n + 1, body)

\* lines 226-251: the link _fetch_email_body returns for a body
ExtractLink(body) == FirstMatch(1, body)

\* What a body can be made of: a link under /verify, a second one, a link
\* under /confirm, links with verify or confirm further down the path, the
\* bare /verify (nothing follows it, so only the third pattern matches), a
\* link of another host, a word.
Tokens ==
    {Url("https://ref.tools/verify/xyz", TRUE, <<"verify", "/xyz">>),
     Url("http://www.ref.tools/verify-email?t=1", TRUE, <<"verify", "-email?t=1">>),
     Url("https://ref.tools/confirm/abc", TRUE, <<"confirm", "/abc">>),
     Url("https://ref.tools/welcome?verify=1", TRUE, <<"welcome?", "verify", "=1">>),
     Url("https://ref.tools/account/confirm", TRUE, <<"account/", "confirm">>),
     Url("https://ref.tools/verify", TRUE, <<"verify">>),
     Url("https://example.com/verify/xyz", FALSE, <<"verify", "/xyz">>),
     Url("hello", FALSE, <<>>)}

\* the bodies of at most three tokens
Bodies ==
    {<<>>} \cup {<<a>> : a \in Tokens} \cup {<<a, b>> : a \in Tokens, b \in Tokens}
        \cup {<<a, b, c>> : a \in Tokens, b \in Tokens, c \in Tokens}

\* lines 234-251 applied to one body
ExtractFromBody ==
    /\ mode = "link" /\ ~res.done
    /\ res' = [done |-> TRUE, out |-> ExtractLink(arg)]
    /\ UNCHANGED <<mainVars, pollVars, mode, rv, obj, arg>>

Msg(id, from, subject, body) ==
    [mail_id |-> id, mail_from |-> from, mail_subject |-> subject, mail_body |-> body]

NoLinkBody == <<Url("https://ref.tools/docs", TRUE, <<"docs">>)>>
LinkBody == <<Url("https://ref.tools/welcome?verify=1", TRUE, <<"welcome?", "verify", "=1">>),
              Url("https://ref.tools/verify/xyz", TRUE, <<"verify", "/xyz">>)>>

\* the messages the model's mailbox can hold
Messages ==
    { Msg("m1", <<"s", "p", "a", "m">>, <<"h", "i">>, LinkBody),
      Msg("m2", <<"R", "e", "f">>, <<"h", "i">>, NoLinkBody),
      Msg("m3", <<"x">>, <<"V", "E", "R", "I", "F", "Y">>, NoLinkBody),
      Msg("m4", <<"n", "o", "@", "r", "e", "f">>, <<"v", "e", "r", "i", "f", "y">>, LinkBody) }

\* the answers to get_email_list: lists of at most two messages
Inboxes ==
    {<<>>} \cup {<<m>> : m \in Messages} \cup {<<m, n>> : m \in Messages, n \in Messages}

Latencies == 0..MaxLatency

\* the loop without the test of line 192: every message counts as flagged
DropUnflagged_Nothing(list) == list

RECURSIVE DropUnflagged(_)
\* lines 187-192: the loop over email_list passes over unflagged messages
DropUnflagged(list) ==
    IF list = <<>> THEN <<>>
    ELSE IF Flagged(Head(list)) THEN list
    ELSE DropUnflagged(Tail(list))

\* the loop condition with <= for <
Waiting_Inclusive(t) == t <= timeout

\* line 172: the loop condition
Waiting(t) == t < timeout

\* line 200: the sleep that ends a round
SleepTime == EMAIL_CHECK_INTERVAL

\* lines 172-184: the loop condition, and when it holds the get_email_list
\* request of a new round; when it fails, lines 202-203
PollRound ==
    /\ mode = "poll" /\ ppc = "loop"
    /\ IF Waiting(now)
       THEN \E d \in Latencies, ok \in BOOLEAN, list \in Inboxes :
              /\ poll_count' = poll_count + 1
              /\ roundStart' = now
              /\ roundLatency' = d
              /\ now' = now + d
              /\ roundFetches' = 0
              /\ fetchedIds' = <<>>
              /\ IF ok
                 THEN /\ inbox' = list
                      /\ ppc' = "scan"
                      /\ pollResult' = pollResult
                 ELSE /\ inbox' = <<>>
                      /\ ppc' = "done"
                      /\ pollResult' = "raised"
       ELSE /\ ppc' = "done"
            /\ pollResult' = None
            /\ UNCHANGED <<now, poll_count, roundStart, roundLatency, roundFetches,
                           fetchedIds, inbox>>
    /\ UNCHANGED <<timeout, mode, mainVars, restVars>>

\* lines 187-198: the next flagged message of the list has its body fetched
FetchBody ==
    /\ mode = "poll" /\ ppc = "scan"
    /\ DropUnflagged(inbox) # <<>>
    /\ LET email == Head(DropUnflagged(inbox))
       IN \E d \in Latencies, ok \in BOOLEAN :
            /\ now' = now + d
            /\ roundLatency' = roundLatency + d
            /\ roundFetches' = roundFetches + 1
            /\ fetchedIds' = Append(fetchedIds, email.mail_id)
            /\ IF ~ok
               THEN /\ ppc' = "done" /\ pollResult' = "raised" /\ inbox' = <<>>
               ELSE IF ExtractLink(email.mail_body) # None
               THEN /\ ppc' = "done"
                    /\ pollResult' = ExtractLink(email.mail_body)
                    /\ inbox' = <<>>
               ELSE /\ ppc' = "scan"
                    /\ pollResult' = pollResult
                    /\ inbox' = Tail(DropUnflagged(inbox))
    /\ UNCHANGED <<timeout, poll_count, roundStart, mode, mainVars, restVars>>

\* line 200: no flagged message is left in the list
SleepRound ==
    /\ mode = "poll" /\ ppc = "scan"
    /\ DropUnflagged(inbox) = <<>>
    /\ now' = now + SleepTime
    /\ inbox' = <<>>
    /\ ppc' = "loop"
    /\ UNCHANGED <<timeout, poll_count, roundStart, roundLatency, roundFetches,
                   fetchedIds, pollResult, mode, mainVars, restVars>>

----------------------------------------------------------------------------
(* main: the locals of one invocation *)

\* the addresses the provider issues and the passwords secrets.choice draws:
\* a fresh one at every call
EmailAddrs == [n \in 1..(MaxAttempts + 2) |-> "mail" \o ToString(n)]
Passwords == [n \in 1..(MaxAttempts + 2) |-> "pw" \o ToString(n)]
\* the links poll_for_email can return: those of the flagged messages
Links == {ExtractLink(m.mail_body) : m \in {n \in Messages : Flagged(n)}} \ {None}
Keys == {"ref_live_A", "", "x"}

\* lines 537-541: the locals main() starts with. ref_tools_proxy and password
\* are the fields of the RefToolsAutomation built at line 583; outcome records
\* the way the invocation left its try block: "running", "retried" (line 680),
\* "error" (except clause without a retry), "signup_failed" (line 599),
\* "no_link" (line 614), "no_key" (line 632) or "success"; failed_at is the
\* step whose exception reached the except clause; steps lists the calls of
\* lines 590-625 the invocation has made, each with its argument; filled is
\* what signup has typed into the two password fields so far; answers is
\* what the sources of PROXY_LIST_URLS answered to fetch_proxies.
NewFrame ==
    [pc |-> "fetch", proxies |-> <<>>, current_proxy |-> None, proxy_attempt |-> 0,
     browser |-> None, session |-> None, context |-> None,
     email |-> None, password |-> None,
     verification_link |-> None, api_key |-> None, ref_tools_proxy |-> None,
     outcome |-> "running", failed_at |-> None, steps |-> <<>>, filled |-> {},
     answers |-> <<>>]

\* lines 699-701: main_with_retry ignores both arguments and awaits main()
main_with_retry(proxy_attempt, proxies) == NewFrame

Line(kind, email, password, key) ==
    [kind |-> kind, email |-> email, password |-> password, key |-> key]

f == frames[cur]

\* main without the close() calls of lines 674-677 and 687-696
Closed_LeftOpen(h) == h

\* browser.close() / session.close() on a local that may be None
Closed(h) == IF h = None THEN None ELSE "closed"

\* line 670: the condition of the retry
RetryCondition(fr) ==
    /\ fr.proxies # <<>>
    /\ fr.proxy_attempt < MAX_PROXY_RETRIES
    /\ fr.proxy_attempt < Len(fr.proxies)

\* lines 666-683: the except clause, entered with the locals fr
Handler(fr) ==
    IF RetryCondition(fr)
    THEN /\ Len(frames) < MaxAttempts
         /\ frames' = Append(
                [frames EXCEPT ![cur] = [fr EXCEPT !.pc = "retrying",
                                                   !.outcome = "retried",
                                                   !.browser = Closed(fr.browser),
                                                   !.context = Closed(fr.context)]],
                main_with_retry(fr.proxy_attempt + 1, fr.proxies))
         /\ cur' = cur + 1
         /\ console' = console \o <<Line("error", None, None, None),
                                    Line("retrying", None, None, None)>>
         /\ raised' = raised
    ELSE /\ frames' = [frames EXCEPT ![cur] = [fr EXCEPT !.pc = "finally",
                                                         !.outcome = "error"]]
         /\ cur' = cur
         /\ console' = Append(console, Line("error", None, None, None))
         /\ raised' = DEBUG

Goto(fr, pc) == frames' = [frames EXCEPT ![cur] = [fr EXCEPT !.pc = pc]]

\* an exception of the call named step leaves the try block
Fail(fr, step) == Handler([fr EXCEPT !.failed_at = step])

\* the call of line 590, 595, 605, 610, 620 or 625 is made
Called(fr, step, a) == [fr EXCEPT !.steps = Append(fr.steps, [step |-> step, arg |-> a])]

----------------------------------------------------------------------------
(* main: one action per step of the try block, each with its except clause *)

\* lines 543-555: fetch the proxies if enabled, take the first as current_proxy
Fetch ==
    /\ mode = "main" /\ cur > 0 /\ f.pc = "fetch"
    /\ IF USE_PROXY
       THEN \E a1 \in SourceAnswers, a2 \in SourceAnswers2 :
              \E pool \in fetch_proxies(<<a1, a2>>) :
                /\ fetchCalls' = fetchCalls + 1
                /\ Goto([f EXCEPT !.proxies = pool, !.answers = <<a1, a2>>,
                                  !.current_proxy =
                                      IF pool # <<>> /\ f.proxy_attempt < Len(pool)
                                      THEN pool[f.proxy_attempt + 1] ELSE None],
                        "launch")
       ELSE /\ fetchCalls' = fetchCalls
            /\ Goto(f, "launch")
    /\ UNCHANGED <<DEBUG, USE_PROXY, cur, console, mailCount, pwCount, raised,
                   attempt, signupTrace, signupResult, mode, pollVars, rv, obj, arg, res>>

\* lines 567-570: the proxy of this attempt
SelectProxy(fr) ==
    IF fr.proxies # <<>> /\ fr.proxy_attempt < Len(fr.proxies)
    THEN fr.proxies[fr.proxy_attempt + 1]
    ELSE fr.current_proxy

\* lines 566-584: select the proxy, launch the browser, open the HTTP session,
\* build the two clients (the password is generated here) and initialize.
\* how: "ok", "launch" (playwright cannot start: no browser, no session yet)
\* or "initialize" (new_context / new_page raises).
Launch ==
    /\ mode = "main" /\ cur > 0 /\ f.pc = "launch"
    /\ \E how \in {"ok", "launch", "initialize"} :
         LET sel == [f EXCEPT !.current_proxy = SelectProxy(f)]
             built == [sel EXCEPT !.browser = "open", !.session = "open",
                                  !.password = Passwords[pwCount + 1],
                                  !.ref_tools_proxy = sel.current_proxy]
         IN CASE how = "ok" ->
                   /\ Goto([built EXCEPT !.context = "open"], "get_email")
                   /\ pwCount' = pwCount + 1
                   /\ UNCHANGED <<cur, console, raised>>
              [] how = "launch" ->
                   /\ Fail(sel, "launch")
                   /\ pwCount' = pwCount
              [] how = "initialize" ->
                   /\ Fail(built, "initialize")
                   /\ pwCount' = pwCount + 1
    /\ UNCHANGED <<DEBUG, USE_PROXY, fetchCalls, mailCount, attempt, signupTrace,
                   signupResult, mode, pollVars, rv, obj, arg, res>>

\* lines 588-591 with get_email_address (133-150)
GetEmail ==
    /\ mode = "main" /\ cur > 0 /\ f.pc = "get_email"
    /\ \E ok \in BOOLEAN :
         IF ok
         THEN LET email == EmailAddrs[mailCount + 1]
              IN /\ Goto([Called(f, "get_email", None) EXCEPT !.email = email], "signup")
                 /\ mailCount' = mailCount + 1
                 /\ console' = Append(console, Line("email_generated", email, None, None))
                 /\ UNCHANGED <<cur, raised>>
         ELSE /\ Fail(Called(f, "get_email", None), "get_email")
              /\ mailCount' = mailCount
    /\ UNCHANGED <<DEBUG, USE_PROXY, fetchCalls, pwCount, attempt, signupTrace,
                   signupResult, mode, pollVars, rv, obj, arg, res>>

----------------------------------------------------------------------------
(* RefToolsAutomation.signup, called from main at lines 593-601 *)

Ev(e, n) == [ev |-> e, n |-> n]

\* line 295: range(SIGNUP_MAX_RETRIES)
SignupRange == 0..(SIGNUP_MAX_RETRIES - 1)

\* signup with the test of line 345 off by one downwards: gives up one attempt early
RetryDelayDue_GivesUpEarly(a) == a < SIGNUP_MAX_RETRIES - 2

\* signup with the test of line 345 off by one upwards: sleeps after the last attempt
RetryDelayDue_SleepsAfterLast(a) == a < SIGNUP_MAX_RETRIES

\* line 345: the test that decides between sleeping and giving up
RetryDelayDue(a) == a < SIGNUP_MAX_RETRIES - 1

\* signup typing a newly generated password into the confirmation field
ConfirmFilled_Regenerated(fr) == Passwords[pwCount + 1]

\* line 315: password_input.fill(self.password)
PasswordFilled(fr) == fr.password

\* line 321: confirm_password_input.fill(self.password)
ConfirmFilled(fr) == fr.password

\* lines 313-321 as far as the attempt got: got is 0 (an exception before
\* line 315), 1 (between lines 315 and 321) or 2 (both fields filled)
Fill(fr, got) ==
    [fr EXCEPT !.filled = @ \cup (IF got >= 1 THEN {<<"password", PasswordFilled(fr)>>}
                                  ELSE {})
                            \cup (IF got >= 2 THEN {<<"confirm", ConfirmFilled(fr)>>}
                                  ELSE {})]

\* One pass of the loop body (lines 296-352), or the fall-through at line 354,
\* followed by main's lines 597-601 when signup returns.
\* how: "ok" (line 341 reached, redirect seen), "fallback" (line 341 reached
\* after wait_for_url raised and the fixed wait of line 338) or "raise" (an
\* exception anywhere else in the try body, caught at line 343, after got of
\* the two password fields were filled).
Signup ==
    /\ mode = "main" /\ cur > 0 /\ f.pc = "signup"
    /\ LET a == IF signupResult = "running" THEN attempt ELSE 0
           tr == IF signupResult = "running" THEN signupTrace ELSE <<>>
           fs == IF signupResult = "running" THEN f ELSE Called(f, "signup", f.email)
           returnTrue(t) ==
               /\ signupTrace' = t
               /\ signupResult' = "True"
               /\ attempt' = a
               /\ console' = Append(console, Line("signup_ok", None, None, None))
               /\ Goto(Fill(fs, 2), "request_verification")
           returnFalse(t, fr) ==
               /\ signupTrace' = t
               /\ signupResult' = "False"
               /\ attempt' = a
               /\ console' = Append(console, Line("signup_failed", None, None, None))
               /\ Goto([fr EXCEPT !.outcome = "signup_failed"], "finally")
       IN IF a \notin SignupRange
          THEN returnFalse(tr, fs)
          ELSE \E how \in {"ok", "fallback", "raise"} :
                 LET t0 == Append(tr, Ev("attempt", a + 1))
                 IN CASE how = "ok" -> returnTrue(t0)
                      [] how = "fallback" ->
                           returnTrue(Append(t0, Ev("sleep", SIGNUP_FALLBACK_WAIT)))
                      [] how = "raise" ->
                           \E got \in 0..2 :
                             IF RetryDelayDue(a)
                             THEN /\ signupTrace' = t0 \o <<Ev("raise", a + 1),
                                                           Ev("sleep", SIGNUP_RETRY_DELAY)>>
                                  /\ signupResult' = "running"
                                  /\ attempt' = a + 1
                                  /\ Goto(Fill(fs, got), "signup")
                                  /\ UNCHANGED console
                             ELSE returnFalse(Append(t0, Ev("raise", a + 1)),
                                              Fill(fs, got))
    /\ UNCHANGED <<DEBUG, USE_PROXY, cur, fetchCalls, mailCount, pwCount, raised,
                   mode, pollVars, rv, obj, arg, res>>

\* the call of signup has returned and main has gone on: its locals are gone
SignupGone == attempt' = 0 /\ signupTrace' = <<>> /\ signupResult' = "idle"

----------------------------------------------------------------------------
(* main, lines 603-664 *)

\* lines 365-369: the selector candidates, tried in this order
selectors ==
    <<"button.verify-button", ".verification-banner button", "button.verify-button">>

\* What the page does with one candidate (lines 374-385): count() is 0,
\* count() raises, wait_for(visible) times out, click() raises, or the click
\* goes through.
SelectorOutcomes == {"absent", "count_raises", "not_visible", "click_fails", "clicked"}

\* A page: whether a statement outside the selector loop raises (lines
\* 359-362, 390-391), and its answer to each candidate.
Pages == [early : BOOLEAN, sel : [1..Len(selectors) -> SelectorOutcomes]]

\* request_verification_email without the try of line 358
OuterExceptCatches_Nothing == FALSE

\* lines 393-395: except Exception around the whole body
OuterExceptCatches == TRUE

\* lines 386-388: except Exception: continue
InnerExceptCatches(o) == o \in {"count_raises", "not_visible", "click_fails"}

\* the state of rv while no call of request_verification_email is being looked at
RvIdle == [called |-> FALSE, raised |-> FALSE, clicked |-> FALSE, tried |-> 0, caught |-> 0]

\* lines 372-388: the loop over the candidates from the i-th on; tried is the
\* number of candidates looked at, caught the number of exceptions swallowed
RECURSIVE TrySelectors(_, _)
TrySelectors(i, page) ==
    IF i > Len(selectors)
    THEN [RvIdle EXCEPT !.called = TRUE, !.tried = i - 1]
    ELSE LET o == page.sel[i]
         IN IF o = "clicked"
            THEN [RvIdle EXCEPT !.called = TRUE, !.clicked = TRUE, !.tried = i]
            ELSE LET r == TrySelectors(i + 1, page)
                 IN IF InnerExceptCatches(o)
                    THEN [r EXCEPT !.caught = r.caught + 1]
                    ELSE IF o = "absent" THEN r
                    ELSE [RvIdle EXCEPT !.called = TRUE, !.tried = i,
                                        !.raised = ~OuterExceptCatches]

\* lines 356-395: what one call does on a page
request_verification_email(page) ==
    IF page.early
    THEN [RvIdle EXCEPT !.called = TRUE, !.caught = 1, !.raised = ~OuterExceptCatches]
    ELSE TrySelectors(1, page)

\* everything a call can do, over all pages
RvResults == {request_verification_email(page) : page \in Pages}

\* lines 603-606: the call, on any page, and the line printed after it
RequestVerification ==
    /\ mode = "main" /\ cur > 0 /\ f.pc = "request_verification"
    /\ \E r \in RvResults :
         LET fc == Called(f, "request_verification", None)
         IN /\ rv' = r
            /\ IF r.raised
               THEN Fail(fc, "request_verification")
               ELSE /\ console' = Append(console,
                                         Line("verification_requested", None, None, None))
                    /\ Goto(fc, "poll")
                    /\ UNCHANGED <<cur, raised>>
    /\ SignupGone
    /\ UNCHANGED <<DEBUG, USE_PROXY, fetchCalls, mailCount, pwCount,
                   mode, pollVars, obj, arg, res>>

\* main without the test of line 612
NoLink_Never(l) == FALSE

\* line 612: not verification_link
NoLink(l) == l \in {None, ""}

\* lines 608-616 with the outcome of poll_for_email(): a link, None after the
\* timeout, or an exception of a request (poll_for_email catches nothing)
Poll ==
    /\ mode = "main" /\ cur > 0 /\ f.pc = "poll"
    /\ \E r \in Links \cup {None, "raise"} :
         CASE r = "raise" -> Fail(Called(f, "poll", None), "poll")
           [] NoLink(r) /\ r # "raise" ->
                /\ console' = Append(console, Line("not_received", None, None, None))
                /\ Goto([Called(f, "poll", None) EXCEPT !.verification_link = r,
                                                        !.outcome = "no_link"],
                        "finally")
                /\ UNCHANGED <<cur, raised>>
           [] OTHER ->
                /\ console' = Append(console, Line("email_received", None, None, None))
                /\ Goto([Called(f, "poll", None) EXCEPT !.verification_link = r],
                        "confirm")
                /\ UNCHANGED <<cur, raised>>
    /\ rv' = RvIdle
    /\ UNCHANGED <<DEBUG, USE_PROXY, fetchCalls, mailCount, pwCount, attempt,
                   signupTrace, signupResult, mode, pollVars, obj, arg, res>>

\* lines 618-621 with confirm_email (397-411), which catches nothing
Confirm ==
    /\ mode = "main" /\ cur > 0 /\ f.pc = "confirm"
    /\ \E ok \in BOOLEAN :
         IF ok
         THEN /\ console' = Append(console, Line("email_confirmed", None, None, None))
              /\ Goto(Called(f, "confirm", f.verification_link), "extract")
              /\ UNCHANGED <<cur, raised>>
         ELSE Fail(Called(f, "confirm", f.verification_link), "confirm")
    /\ UNCHANGED <<DEBUG, USE_PROXY, fetchCalls, mailCount, pwCount, attempt,
                   signupTrace, signupResult, mode, pollVars, rv, obj, arg, res>>

\* main testing "api_key is None" instead of "not api_key"
NoKey_OnlyNone(k) == k = None

\* line 627: not api_key
NoKey(k) == k \in {None, ""}

\* main returning at line 628 without printing the credentials
ManualCredentials_Omitted(fr) == <<Line("extract_failed", None, None, None)>>

\* lines 628-631: what is printed when no key was extracted
ManualCredentials(fr) ==
    <<Line("extract_failed", None, None, None),
      Line("manual_credentials", fr.email, fr.password, None)>>

\* lines 635-664: the success output
SuccessOutput(fr, k) == <<Line("success", fr.email, fr.password, k)>>

\* extract_api_key without the try of line 420
ExtractExceptCatches_Nothing == FALSE

\* lines 510-514: except Exception around the whole body of extract_api_key,
\* which prints the error and returns None
ExtractExceptCatches == TRUE

\* lines 623-664 with extract_api_key (413-514): it returns None, a key, or
\* "" (a value attribute of blanks, stripped at line 473); exc is an
\* exception raised inside it
Extract ==
    /\ mode = "main" /\ cur > 0 /\ f.pc = "extract"
    /\ LET fc == Called(f, "extract", None)
           returns(k, printed) ==
               /\ console' = console \o printed \o
                                 (IF NoKey(k) THEN ManualCredentials(fc)
                                  ELSE SuccessOutput(fc, k))
               /\ Goto([fc EXCEPT !.api_key = k,
                                  !.outcome = IF NoKey(k) THEN "no_key" ELSE "success"],
                       "finally")
               /\ UNCHANGED <<cur, raised>>
       IN \E exc \in BOOLEAN :
            IF exc
            THEN IF ExtractExceptCatches
                 THEN returns(None, <<Line("extract_error", None, None, None)>>)
                 ELSE Fail(fc, "extract")
            ELSE \E k \in Keys \cup {None} : returns(k, <<>>)
    /\ UNCHANGED <<DEBUG, USE_PROXY, fetchCalls, mailCount, pwCount,
                   attempt, signupTrace, signupResult, mode, pollVars, rv, obj, arg, res>>

\* lines 685-696, then the return to the caller: an invocation that was
\* awaiting main_with_retry at line 680 goes on to its own finally clause
Finally ==
    /\ mode = "main" /\ cur > 0 /\ f.pc = "finally"
    /\ frames' = [i \in 1..Len(frames) |->
                    IF i = cur
                    THEN [f EXCEPT !.pc = "returned",
                                   !.session = Closed(f.session),
                                   !.browser = Closed(f.browser),
                                   !.context = Closed(f.context)]
                    ELSE IF i = cur - 1 THEN [frames[i] EXCEPT !.pc = "finally"]
                    ELSE frames[i]]
    /\ cur' = cur - 1
    /\ SignupGone
    /\ UNCHANGED <<DEBUG, USE_PROXY, console, fetchCalls, mailCount, pwCount, raised,
                   mode, pollVars, rv, obj, arg, res>>

----------------------------------------------------------------------------
(* RefToolsAutomation on its own: __init__, initialize and close, lines 257-283
   and 516-519, called in any order *)

\* lines 257-262: the object after __init__. context and page are 0 for None,
\* otherwise the number of a browser context in contexts. Of each browser
\* context the model keeps whether it is open, how often its close() was
\* awaited, and how often that released it. ops is the list of calls made on
\* the object; raised says that one of them raised out of close().
NewAutomation == [context |-> 0, page |-> 0, contexts |-> <<>>, ops |-> <<>>,
                  raised |-> FALSE]

\* line 518: if self.context
ContextSet(c) == c # 0

\* BrowserContext.close() as awaited at line 519: a context that is open is
\* released; on a context already closed the call returns without effect
ContextClose(c) ==
    [c EXCEPT !.open = FALSE, !.closeCalls = c.closeCalls + 1,
              !.released = c.released + (IF c.open THEN 1 ELSE 0)]

\* lines 270-283. how: "ok", new_context raises (line 281), or new_page
\* raises (line 282) after the context was stored
Initialize ==
    /\ mode = "close" /\ Len(obj.ops) < MaxOps
    /\ \E how \in {"ok", "new_context_raises", "new_page_raises"} :
         LET n == Len(obj.contexts) + 1
             made == Append(obj.contexts, [open |-> TRUE, closeCalls |-> 0, released |-> 0])
             logged == [obj EXCEPT !.ops = Append(obj.ops, "initialize")]
         IN obj' = CASE how = "ok" ->
                          [logged EXCEPT !.contexts = made, !.context = n, !.page = n]
                     [] how = "new_page_raises" ->
                          [logged EXCEPT !.contexts = made, !.context = n]
                     [] OTHER -> logged
    /\ UNCHANGED <<mainVars, pollVars, mode, rv, arg, res>>

\* lines 516-519: close(); self.context stays what it was
Close ==
    /\ mode = "close" /\ Len(obj.ops) < MaxOps
    /\ LET logged == [obj EXCEPT !.ops = Append(obj.ops, "close")]
       IN obj' = IF ContextSet(obj.context)
                 THEN IF obj.context = 0
                      THEN [logged EXCEPT !.raised = TRUE]
                      ELSE [logged EXCEPT !.contexts[obj.context] =
                                              ContextClose(obj.contexts[obj.context])]
                 ELSE logged
    /\ UNCHANGED <<mainVars, pollVars, mode, rv, arg, res>>

----------------------------------------------------------------------------
(* RefToolsAutomation.extract_api_key: the tests a candidate read from an
   element goes through, lines 466-490. Strings are sequences of characters. *)

\* str.startswith
StartsWith(str, p) == Len(str) >= Len(p) /\ SubSeq(str, 1, Len(p)) = p

RECURSIVE StripLeft(_)
StripLeft(str) == IF str # <<>> /\ Head(str) = " " THEN StripLeft(Tail(str)) ELSE str

RECURSIVE StripRight(_)
StripRight(str) ==
    IF str # <<>> /\ str[Len(str)] = " "
    THEN StripRight(SubSeq(str, 1, Len(str) - 1)) ELSE str

\* str.strip() on strings whose only whitespace is the blank
StripChars(str) == StripRight(StripLeft(str))

\* "ref_", lines 471 and 484
RefPrefix == <<"r", "e", "f", "_">>

\* line 486: the words a text candidate must not contain
Denylist ==
    {<<"t", "y", "p", "e", "s", "c", "r", "i", "p", "t">>,
     <<"n", "o", "d", "e", ".", "j", "s">>,
     <<"e", "r", "r", "o", "r">>,
     <<"f", "a", "i", "l", "e", "d">>,
     <<"s", "e", "a", "r", "c", "h">>,
     <<"d", "o", "c", "s">>,
     <<"i", "n", "s", "t", "a", "l", "l">>,
     <<"v", "e", "r", "i", "f", "y">>}

\* line 486: any(word in api_key.lower() for word in [...])
Denylisted(str) == \E word \in Denylist : In(word, Lower(str))

\* the lower length test with the boundary included
LongEnough_Inclusive(n) == n >= 30

\* lines 471 and 484: len(api_key) > 30
LongEnough(n) == n > 30

\* lines 471 and 484: len(api_key) < 200
ShortEnough(n) == n < 200

\* what a test returns: whether the candidate is returned as the key, and as what
Rejected == [accepted |-> FALSE, key |-> <<>>]
Accepted(k) == [accepted |-> TRUE, key |-> k]

\* lines 467-473: the value attribute of an element
ValueCheck(api_key) ==
    IF /\ api_key # <<>>
       /\ (StartsWith(api_key, RefPrefix) \/ LongEnough(Len(api_key)))
       /\ ShortEnough(Len(api_key))
    THEN Accepted(StripChars(api_key))
    ELSE Rejected

\* lines 479-488: the inner text of an element
TextCheck(text) ==
    LET api_key == StripChars(text)
    IN IF /\ text # <<>>
          /\ \/ StartsWith(api_key, RefPrefix)
             \/ LongEnough(Len(api_key)) /\ ShortEnough(Len(api_key))
          /\ ~Denylisted(api_key)
       THEN Accepted(api_key)
       ELSE Rejected

\* n times the character c
Repeat(c, n) == [i \in 1..n |-> c]

\* The candidates: blanks, "ref_" or not, a word of the denylist (in either
\* case) or not, then letters up to a length around the bounds of the tests,
\* blanks.
KeyLengths == {5, 29, 30, 31, 32, 198, 199, 200, 201}
KeyWords == {<<>>, <<"e", "r", "r", "o", "r">>, <<"D", "o", "c", "s">>}
Candidates ==
    {Repeat(" ", lead) \o pre \o word \o Repeat("a", n - Len(pre) - Len(word))
         \o Repeat(" ", trail) :
       lead \in 0..1, pre \in {<<>>, RefPrefix}, word \in KeyWords,
       n \in KeyLengths, trail \in 0..1}

\* one element of the page yields its value attribute or its inner text, and
\* the test of that source is applied to it
Classify ==
    /\ mode = "key" /\ ~res.done
    /\ res' = [done |-> TRUE,
               out |-> IF arg.source = "value" THEN ValueCheck(arg.raw)
                       ELSE TextCheck(arg.raw)]
    /\ UNCHANGED <<mainVars, pollVars, mode, rv, obj, arg>>

----------------------------------------------------------------------------
(* RefToolsAutomation.extract_api_key as a whole, lines 420-514, on one page *)

\* lines 439-451: the selectors, in the order they are tried
key_selectors ==
    <<"input[readonly]", "input[type='text'][readonly]", "code", "[data-key]",
      "pre code", ".api-key", "[class*='key'] code", "textarea[readonly]">>

\* An element as the page serves it: its value attribute and its inner text,
\* <<>> where there is none (get_attribute returns None, or the call raises
\* and line 474 or 489 passes over it).
Element(v, t) == [value |-> v, text |-> t]

\* the elements of the model's pages: a "ref_" value with a long text, a text
\* with the prefix behind a short value, a long text with a denylisted word
\* and no value, a long value and no text
KeyElements ==
    {Element(RefPrefix \o <<"a">>, Repeat("b", 31)),
     Element(<<"n", "o">>, RefPrefix \o <<"b">>),
     Element(<<>>, <<"e", "r", "r", "o", "r">> \o Repeat("a", 27)),
     Element(Repeat("c", 31), <<>>)}

\* what a selector finds: count() raises (line 458), or the elements in
\* document order, at most two
SelectorAnswers ==
    {[raises |-> TRUE, elements |-> <<>>]}
    \cup {[raises |-> FALSE, elements |-> l] :
            l \in {<<>>} \cup {<<a>> : a \in KeyElements}
                  \cup {<<a, b>> : a \in KeyElements, b \in KeyElements}}

\* the inner text of the body: nothing, a word of 19 characters, a word of
\* 19 and then words of 20 and 21, a word of 20 with a dot in the middle, a
\* word of 20 between hyphens, a word of 19 joined to a letter by a hyphen
BodyTexts ==
    {<<>>,
     Repeat("y", 19),
     Repeat("y", 19) \o <<" ">> \o Repeat("x", 20) \o <<" ">> \o Repeat("y", 21),
     Repeat("x", 10) \o <<".">> \o Repeat("y", 10),
     <<"-">> \o Repeat("x", 20) \o <<"-">>,
     Repeat("x", 19) \o <<"-", "y">>}

\* The pages: goto raises (line 423) and nothing else is looked at; or at
\* most two of the selectors find something or raise, and the body text is
\* read or inner_text("body") raises (line 498).
NoAnswer == [raises |-> FALSE, elements |-> <<>>]
KeyPages ==
    {[goto_raises |-> TRUE, found |-> [n \in DOMAIN key_selectors |-> NoAnswer],
      body_raises |-> FALSE, body |-> <<>>]}
    \cup {[goto_raises |-> FALSE,
           found |-> [n \in DOMAIN key_selectors |->
                        IF n = s1 THEN a1 ELSE IF n = s2 THEN a2 ELSE NoAnswer],
           body_raises |-> br, body |-> IF br THEN <<>> ELSE bt] :
            s1 \in DOMAIN key_selectors, s2 \in DOMAIN key_selectors,
            a1 \in SelectorAnswers, a2 \in SelectorAnswers,
            br \in BOOLEAN, bt \in BodyTexts}

\* an element with its text looked at before its value
ElementResult_TextFirst(e) ==
    IF TextCheck(e.text).accepted THEN TextCheck(e.text) ELSE ValueCheck(e.value)

\* lines 463-490: the value attribute first, then the inner text
ElementResult(e) ==
    IF ValueCheck(e.value).accepted THEN ValueCheck(e.value) ELSE TextCheck(e.text)

RECURSIVE ElementsResult(_)
\* lines 462-490: for i in range(count)
ElementsResult(list) ==
    IF list = <<>> THEN Rejected
    ELSE IF ElementResult(Head(list)).accepted THEN ElementResult(Head(list))
    ELSE ElementsResult(Tail(list))

RECURSIVE SelectorsResult(_, _)
\* lines 454-494: for selector in selectors, from the n-th on; a selector
\* whose count() raises is passed over (line 492)
SelectorsResult(n, page) ==
    IF n > Len(key_selectors) THEN Rejected
    ELSE LET r == IF page.found[n].raises THEN Rejected
                  ELSE ElementsResult(page.found[n].elements)
         IN IF r.accepted THEN r ELSE SelectorsResult(n + 1, page)

\* the characters of \w that the model's pages use
WordChars == {"a", "b", "c", "e", "f", "n", "o", "r", "x", "y", "_"}

\* line 503: [A-Za-z0-9_-], on the characters the model's pages use
KeyChars == WordChars \cup {"-"}

\* line 503: {20,}
KEY_PATTERN_MIN == 20

\* line 503: \b before the i-th character of the text (after the last one
\* when i = Len(text) + 1): a word character on exactly one side
IsWord(text, i) == i \in 1..Len(text) /\ text[i] \in WordChars
Boundary(text, i) == IsWord(text, i - 1) # IsWord(text, i)

\* line 503: how many characters of the class follow from the i-th on
ClassRun(text, i) ==
    IF \A j \in i..Len(text) : text[j] \in KeyChars THEN Len(text) - i + 1
    ELSE (CHOOSE j \in i..Len(text) :
            text[j] \notin KeyChars /\ \A k \in i..(j - 1) : text[k] \in KeyChars) - i

\* line 503: the length of the match that starts at the i-th character, 0
\* when there is none; the quantifier takes all it can and gives back until
\* the closing \b holds
MatchLen(text, i) ==
    LET ends == {n \in KEY_PATTERN_MIN..ClassRun(text, i) : Boundary(text, i + n)}
    IN IF Boundary(text, i) /\ ends # {}
       THEN CHOOSE n \in ends : \A m \in ends : m <= n
       ELSE 0

\* lines 504-508: matches[0] of re.findall(key_pattern, page_text), <<>> when
\* there is no match
FirstToken(text) ==
    LET starts == {i \in 1..Len(text) : MatchLen(text, i) > 0}
    IN IF starts = {} THEN <<>>
       ELSE LET i == CHOOSE i \in starts : \A j \in starts : i <= j
            IN SubSeq(text, i, i + MatchLen(text, i) - 1)

\* lines 495-508: the scan of the body text; what it finds is returned as is
BodyScan(page) ==
    IF page.body_raises \/ FirstToken(page.body) = <<>> THEN Rejected
    ELSE Accepted(FirstToken(page.body))

\* lines 420-514: Rejected stands for the return of None
extract_api_key(page) ==
    IF page.goto_raises THEN Rejected
    ELSE IF SelectorsResult(1, page).accepted THEN SelectorsResult(1, page)
    ELSE BodyScan(page)

\* one call of extract_api_key on the page
ExtractKey ==
    /\ mode = "extract" /\ ~res.done
    /\ res' = [done |-> TRUE, out |-> extract_api_key(arg)]
    /\ UNCHANGED <<mainVars, pollVars, mode, rv, obj, arg>>

----------------------------------------------------------------------------
(* Specifications *)

MainIdle ==
    /\ DEBUG = FALSE /\ USE_PROXY = FALSE
    /\ frames = <<>> /\ cur = 0 /\ console = <<>>
    /\ fetchCalls = 0 /\ mailCount = 0 /\ pwCount = 0 /\ raised = FALSE
    /\ attempt = 0 /\ signupTrace = <<>> /\ signupResult = "idle"

\* the variables of the other entry points at rest
RestIdle == rv = RvIdle /\ obj = None /\ arg = None /\ res = None

PollIdle ==
    /\ timeout = 0 /\ now = 0 /\ poll_count = 0 /\ ppc = "idle" /\ inbox = <<>>
    /\ roundStart = 0 /\ roundLatency = 0 /\ roundFetches = 0 /\ fetchedIds = <<>>
    /\ pollResult = "pending"

\* asyncio.run(main()), line 705
Init ==
    /\ mode = "main"
    /\ DEBUG \in BOOLEAN /\ USE_PROXY \in BOOLEAN
    /\ frames = <<NewFrame>> /\ cur = 1 /\ console = <<>>
    /\ fetchCalls = 0 /\ mailCount = 0 /\ pwCount = 0 /\ raised = FALSE
    /\ attempt = 0 /\ signupTrace = <<>> /\ signupResult = "idle"
    /\ PollIdle
    /\ RestIdle

Next ==
    \/ Fetch
    \/ Launch
    \/ GetEmail
    \/ Signup
    \/ RequestVerification
    \/ Poll
    \/ Confirm
    \/ Extract
    \/ Finally

Spec == Init /\ [][Next]_vars

\* poll_for_email(timeout) entered at line 169
InitPoll ==
    /\ mode = "poll"
    /\ MainIdle
    /\ timeout \in (0..MaxTimeout) \cup {MAX_EMAIL_WAIT_TIME}
    /\ now = 0 /\ poll_count = 0 /\ ppc = "loop" /\ inbox = <<>>
    /\ roundStart = 0 /\ roundLatency = 0 /\ roundFetches = 0 /\ fetchedIds = <<>>
    /\ pollResult = "pending"
    /\ RestIdle

NextPoll ==
    \/ PollRound
    \/ FetchBody
    \/ SleepRound

SpecPoll == InitPoll /\ [][NextPoll]_vars

\* RefToolsAutomation(proxy), line 583, then any calls of initialize and close
InitClose ==
    /\ mode = "close"
    /\ MainIdle /\ PollIdle
    /\ rv = RvIdle /\ arg = None /\ res = None
    /\ obj = NewAutomation

NextClose ==
    \/ Initialize
    \/ Close

SpecClose == InitClose /\ [][NextClose]_vars

\* an element of the keys page is looked at, lines 462-490
InitKey ==
    /\ mode = "key"
    /\ MainIdle /\ PollIdle
    /\ rv = RvIdle /\ obj = None
    /\ arg \in [source : {"value", "text"}, raw : Candidates]
    /\ res = [done |-> FALSE, out |-> Rejected]

NextKey == Classify

SpecKey == InitKey /\ [][NextKey]_vars

\* a mail body has been fetched, line 227
InitLink ==
    /\ mode = "link"
    /\ MainIdle /\ PollIdle
    /\ rv = RvIdle /\ obj = None
    /\ arg \in Bodies
    /\ res = [done |-> FALSE, out |-> None]

NextLink == ExtractFromBody

SpecLink == InitLink /\ [][NextLink]_vars

\* extract_api_key is called on a page, line 625
InitExtract ==
    /\ mode = "extract"
    /\ MainIdle /\ PollIdle
    /\ rv = RvIdle /\ obj = None
    /\ arg \in KeyPages
    /\ res = [done |-> FALSE, out |-> Rejected]

NextExtract == ExtractKey

SpecExtract == InitExtract /\ [][NextExtract]_vars

----------------------------------------------------------------------------
(* Claims C1-C3: the proxy retry of main *)

\* the pool the run loaded: what the first invocation fetched
RunPool == frames[1].proxies

\* select(attempt_index) as documented: the pool element at that index, None
\* once the pool is exhausted
Select(pool, k) == IF k < Len(pool) THEN pool[k + 1] ELSE None

\* the invocations that have chosen their proxy (lines 567-570 are behind them)
Selected == {i \in 1..Len(frames) : frames[i].pc \notin {"fetch", "launch"}}

\* C1: with a pool of N <= MAX_PROXY_RETRIES entries loaded and every attempt
\* ending in an exception, no more than N attempts are ever started (an
\* attempt after the first is started only by the except clause of the one
\* before it, so every earlier attempt has ended in an exception).
C1_OneAttemptPerPoolEntry ==
    (mode = "main" /\ Len(RunPool) \in 1..MAX_PROXY_RETRIES)
        => Len(frames) <= Len(RunPool)

\* C2: the attempt with 0-based index k uses the pool element at position k
\* of the run's pool (None when there is none), and no two attempts of a run
\* use the same pool element.
C2_ProxyFollowsAttemptIndex ==
    mode = "main" =>
        /\ \A i \in Selected : frames[i].current_proxy = Select(RunPool, i - 1)
        /\ \A i, j \in Selected :
             (i # j /\ frames[i].current_proxy # None)
                 => frames[i].current_proxy # frames[j].current_proxy

\* C3: fetch_proxies is called at most once in a run, and every invocation
\* works on the pool in the order the first one loaded it.
C3_PoolFetchedOnce ==
    mode = "main" =>
        /\ fetchCalls <= 1
        /\ \A i \in Selected : frames[i].proxies = RunPool

----------------------------------------------------------------------------
(* Claims C4, C5: the retry loop of signup *)

Positions(tr, e) == {i \in DOMAIN tr : tr[i].ev = e}
Attempts(tr) == Cardinality(Positions(tr, "attempt"))
Raises(tr) == Cardinality(Positions(tr, "raise"))
RetrySleeps(tr) == {i \in DOMAIN tr : tr[i] = Ev("sleep", SIGNUP_RETRY_DELAY)}
SignupReturned == signupResult \in {"True", "False"}

\* C4: signup returns True after exactly k attempts when attempt k is the
\* first that raises nothing (every earlier attempt raised, k <=
\* SIGNUP_MAX_RETRIES), returns False after exactly SIGNUP_MAX_RETRIES
\* attempts when all of them raised, never starts a further attempt, and the
\* exception never reaches main's except clause.
C4_SignupStopsAtFirstSuccess ==
    mode = "main" =>
        /\ Attempts(signupTrace) <= SIGNUP_MAX_RETRIES
        /\ \A i \in Positions(signupTrace, "attempt") :
             signupTrace[i].n = Cardinality({j \in Positions(signupTrace, "attempt") : j <= i})
        /\ signupResult = "running" => /\ f.pc = "signup"
                                        /\ Raises(signupTrace) = Attempts(signupTrace)
        /\ signupResult = "True" =>
             /\ Attempts(signupTrace) \in 1..SIGNUP_MAX_RETRIES
             /\ {signupTrace[i].n : i \in Positions(signupTrace, "raise")}
                    = 1..(Attempts(signupTrace) - 1)
             /\ f.pc = "request_verification"
        /\ signupResult = "False" =>
             /\ Attempts(signupTrace) = SIGNUP_MAX_RETRIES
             /\ {signupTrace[i].n : i \in Positions(signupTrace, "raise")}
                    = 1..SIGNUP_MAX_RETRIES
             /\ f.pc = "finally" /\ f.outcome = "signup_failed"
             /\ console[Len(console)].kind = "signup_failed"

\* witness of C4: fail, fail, succeed has returned True after three attempts
C4_Witness ==
    /\ signupResult = "True"
    /\ Attempts(signupTrace) = 3
    /\ Raises(signupTrace) = 2

\* C5: a call of signup that made k attempts has slept SIGNUP_RETRY_DELAY
\* exactly k-1 times: once between every two consecutive attempts, each time
\* right after a raise and right before the next attempt, never after the
\* attempt that ended the call.
C5_DelayBetweenAttemptsOnly ==
    (mode = "main" /\ SignupReturned) =>
        /\ Cardinality(RetrySleeps(signupTrace)) = Attempts(signupTrace) - 1
        /\ \A i \in RetrySleeps(signupTrace) :
             /\ i > 1 /\ signupTrace[i - 1].ev = "raise"
             /\ i < Len(signupTrace) /\ signupTrace[i + 1].ev = "attempt"
        /\ \A p, q \in Positions(signupTrace, "attempt") :
             (p < q /\ \A r \in Positions(signupTrace, "attempt") : ~(p < r /\ r < q))
                 => Cardinality({i \in RetrySleeps(signupTrace) : p < i /\ i < q}) = 1

\* witness of C5: three failed attempts have returned False after two delays
C5_Witness ==
    /\ signupResult = "False"
    /\ Attempts(signupTrace) = 3
    /\ Cardinality(RetrySleeps(signupTrace)) = 2

----------------------------------------------------------------------------
(* Claim C6: poll_for_email without a verification link *)

Ceil(a, b) == (a + b - 1) \div b

\* the call has returned None: the loop condition failed at line 172
TimedOut == mode = "poll" /\ ppc = "done" /\ pollResult = None

\* a link is returned only out of a body that was fetched and contains it
LinkFromFetchedBody ==
    (mode = "poll" /\ ppc = "done" /\ pollResult \notin {None, "raised"}) =>
        /\ fetchedIds # <<>>
        /\ \E m \in Messages :
             /\ m.mail_id = fetchedIds[Len(fetchedIds)]
             /\ Flagged(m)
             /\ ExtractLink(m.mail_body) = pollResult

----------------------------------------------------------------------------
(* Claims C7-C10: what main shows when an invocation ends *)

\* the invocations that have left their try block
Ended(o) == {i \in 1..Len(frames) : frames[i].outcome = o}

\* some message on the console carries both the email and the password of
\* invocation i
CredentialsSurfaced(i) ==
    \E n \in DOMAIN console :
        /\ console[n].email = frames[i].email
        /\ console[n].password = frames[i].password

KindsShown == {console[n].kind : n \in DOMAIN console}

\* C7: an invocation whose polling returned None ends without confirming or
\* extracting, and its email and password are on the console.
C7_TimeoutSurfacesCredentials ==
    mode = "main" =>
        \A i \in Ended("no_link") :
            /\ frames[i].pc \in {"finally", "returned"}
            /\ frames[i].api_key = None
            /\ CredentialsSurfaced(i)

\* C8: an invocation whose extract_api_key returned no key ends without a
\* success message, with a message carrying its own email and password.
C8_NoKeySurfacesCredentials ==
    mode = "main" =>
        \A i \in Ended("no_key") :
            /\ frames[i].pc \in {"finally", "returned"}
            /\ NoKey(frames[i].api_key)
            /\ "success" \notin KindsShown
            /\ \E n \in DOMAIN console :
                 console[n] = Line("manual_credentials", frames[i].email,
                                   frames[i].password, None)
            /\ frames[i].email # None /\ frames[i].password # None

\* witness of C8: the second attempt of a run has ended without a key
C8_Witness ==
    /\ mode = "main" /\ Len(frames) = 2
    /\ frames[2].outcome = "no_key" /\ frames[2].api_key = ""
    /\ cur = 0

\* C9: every invocation that ends the run in failure after its mailbox
\* address was obtained has its email and password on the console; among them
\* the one whose signup gave up and the one whose exception found no retry.
C9_FailureSurfacesCredentials ==
    mode = "main" =>
        \A i \in Ended("signup_failed") \cup Ended("error")
                    \cup Ended("no_link") \cup Ended("no_key") :
            frames[i].email # None => CredentialsSurfaced(i)

\* C10: the success message is shown for an invocation exactly when its
\* extract_api_key returned a non-empty key, it then carries that key with the
\* email and password of the invocation, and no other message carries a key.
C10_KeyIffSuccess ==
    mode = "main" =>
        /\ \A i \in 1..Len(frames) :
             (frames[i].api_key \notin {None, ""})
                 <=> /\ frames[i].outcome = "success"
                     /\ \E n \in DOMAIN console :
                          console[n] = Line("success", frames[i].email,
                                            frames[i].password, frames[i].api_key)
        /\ \A n \in DOMAIN console :
             (console[n].kind = "success" \/ console[n].key # None) =>
                 /\ console[n].kind = "success"
                 /\ console[n].key \notin {None, ""}
                 /\ \E i \in Ended("success") :
                      /\ frames[i].api_key = console[n].key
                      /\ frames[i].pc \in {"finally", "returned"}

\* witness of C10: a run has returned after showing a key
C10_Witness ==
    /\ mode = "main" /\ cur = 0
    /\ \E n \in DOMAIN console : console[n].kind = "success" /\ console[n].key = "ref_live_A"

----------------------------------------------------------------------------
(* Claims C11, C12, C18, C19: the steps of one invocation of main *)

\* the invocations in which an exception of the call named step reached the
\* except clause
FailedAt(step) == {i \in 1..Len(frames) : frames[i].failed_at = step}

\* the names of the calls an invocation has made, in order
StepNames(fr) == [n \in DOMAIN fr.steps |-> fr.steps[n].step]

\* lines 588-625: the calls of one invocation, in program order
CanonicalSteps ==
    <<"get_email", "signup", "request_verification", "poll", "confirm", "extract">>

IsPrefix(a, b) == Len(a) <= Len(b) /\ a = SubSeq(b, 1, Len(a))

\* C11: after get_email_address raised, the run is over: the invocation has
\* made no other call and ends with the error, and no further invocation is
\* started, with or without a pool.
C11_MailboxFailureAbortsRun ==
    mode = "main" =>
        \A i \in FailedAt("get_email") :
            /\ StepNames(frames[i]) = <<"get_email">>
            /\ frames[i].outcome = "error"
            /\ i = Len(frames)

\* C12: request_verification_email raises on no page, whatever the page does
\* with the three candidates, and main goes on to poll_for_email after it.
C12_VerificationRequestNeverFails ==
    mode = "main" =>
        /\ FailedAt("request_verification") = {}
        /\ rv.called =>
             /\ ~rv.raised
             /\ cur > 0 /\ f.pc = "poll" /\ f.outcome = "running"
             /\ console[Len(console)].kind = "verification_requested"
        /\ \A i \in 1..Len(frames) :
             LET names == StepNames(frames[i])
             IN (Len(names) >= 3 /\ frames[i].pc # "poll")
                    => Len(names) >= 4 /\ names[4] = "poll"

\* witness of C12: the call met an exception at each of the three candidates,
\* clicked nothing, and main is about to poll
C12_Witness ==
    /\ mode = "main" /\ cur > 0
    /\ rv.called /\ ~rv.clicked /\ rv.tried = 3 /\ rv.caught = 3
    /\ f.pc = "poll"

\* C18: the calls of an invocation are a prefix of get_email, signup,
\* request_verification, poll, confirm, extract, each made at most once; signup
\* is called with the acquired address, confirm_email with the link that
\* poll_for_email returned, extract_api_key after confirm_email returned; after
\* signup returned False or poll_for_email returned None no further call is made.
C18_StepsInOrder ==
    mode = "main" =>
        \A i \in 1..Len(frames) :
            LET fr == frames[i]
                names == StepNames(fr)
            IN /\ IsPrefix(names, CanonicalSteps)
               /\ \A n \in DOMAIN fr.steps :
                    /\ fr.steps[n].step = "signup" =>
                         /\ fr.steps[n].arg = fr.email
                         /\ \E k \in DOMAIN EmailAddrs : fr.email = EmailAddrs[k]
                    /\ fr.steps[n].step = "confirm" =>
                         /\ fr.steps[n].arg = fr.verification_link
                         /\ fr.verification_link \in Links
                    /\ fr.steps[n].step = "extract" => fr.failed_at # "confirm"
               /\ fr.outcome = "signup_failed" => names = SubSeq(CanonicalSteps, 1, 2)
               /\ fr.outcome = "no_link" =>
                    /\ names = SubSeq(CanonicalSteps, 1, 4)
                    /\ fr.verification_link = None

\* witness of C18: an invocation made all six calls and ended with a key
C18_Witness ==
    /\ mode = "main"
    /\ \E i \in Ended("success") :
         StepNames(frames[i]) = CanonicalSteps /\ frames[i].pc = "returned"

\* an exception was raised inside the extract_api_key of invocation i (only
\* the last invocation of a run can have called it and ended)
ExtractRaised(i) ==
    /\ i = Len(frames)
    /\ frames[i].pc \in {"retrying", "finally", "returned"}
    /\ Len(frames[i].steps) = Len(CanonicalSteps)
    /\ "extract_error" \in KindsShown

\* C19 as stated: an exception inside extract_api_key, with a pool loaded and
\* attempts remaining, triggers the proxy retry.
C19_StepFailureTriggersRetry ==
    mode = "main" =>
        \A i \in 1..Len(frames) :
            (ExtractRaised(i) /\ RetryCondition(frames[i]))
                => frames[i].outcome = "retried"

\* C19, amended: an exception of confirm_email reaches the except clause
\* after a single call, and starts a further invocation when a pool is loaded;
\* an exception inside extract_api_key never reaches it: extract_api_key prints
\* the error and returns None, and main ends with the manual credentials.
C19_ConfirmFailureRetriesExtractFailureDoesNot ==
    mode = "main" =>
        /\ \A i \in FailedAt("confirm") :
             /\ StepNames(frames[i]) = SubSeq(CanonicalSteps, 1, 5)
             /\ frames[i].api_key = None
             /\ frames[i].proxies # <<>> =>
                    frames[i].outcome = "retried" /\ i < Len(frames)
             /\ frames[i].proxies = <<>> => frames[i].outcome = "error"
        /\ FailedAt("extract") = {}
        /\ \A n \in DOMAIN console :
             console[n].kind = "extract_error" =>
                 /\ Len(console) >= n + 2
                 /\ console[n + 1].kind = "extract_failed"
                 /\ console[n + 2].kind = "manual_credentials"
                 /\ frames[Len(frames)].outcome = "no_key"

\* witness of C19: with a pool loaded each time, the first invocation failed
\* in confirm_email and was retried, the second met an exception inside
\* extract_api_key and ended without a key and without a third invocation
C19_Witness ==
    /\ mode = "main" /\ cur = 0 /\ Len(frames) = 2
    /\ FailedAt("confirm") = {1} /\ frames[1].outcome = "retried"
    /\ ExtractRaised(2) /\ frames[2].proxies # <<>> /\ frames[2].outcome = "no_key"

----------------------------------------------------------------------------
(* Claim C13: close() *)

----------------------------------------------------------------------------
(* Claims C14-C16: which candidates are taken for a key *)

Classified == mode = "key" /\ res.done

\* the string the test is applied to: the value attribute as it is (line
\* 471), the inner text stripped (line 481)
Candidate == IF arg.source = "text" THEN StripChars(arg.raw) ELSE arg.raw

\* str is made of letters, digits, "_" and "-" only (of which the candidates
\* use these)
AllowedChars(str) ==
    \A i \in DOMAIN str :
        str[i] \in {"a", "e", "r", "o", "f", "D", "c", "s", "_"}

\* C14: a candidate that starts with "ref_" is accepted, whatever its length
\* and content, from the value attribute as well as from the text.
C14_PrefixAlwaysAccepted ==
    (Classified /\ StartsWith(Candidate, RefPrefix)) => res.out.accepted

\* C15: a candidate that does not start with "ref_" and is shorter than 30
\* characters or contains a word of the denylist is not accepted, from the
\* value attribute as well as from the text.
C15_ShortOrDenylistedRejected ==
    (/\ Classified
     /\ ~StartsWith(Candidate, RefPrefix)
     /\ Len(Candidate) < 30 \/ Denylisted(Candidate))
        => ~res.out.accepted

----------------------------------------------------------------------------
(* Claim C17: the link taken out of a mail body *)

\* the positions of the body that pattern n matches
Hits(n, body) == {i \in DOMAIN body : Pattern(n, body[i])}

\* the match of pattern n that comes first in the body
Earliest(n, body) == body[CHOOSE i \in Hits(n, body) : \A j \in Hits(n, body) : i <= j].url

\* C17: the link returned is the earliest match of the first of the four
\* patterns (verify path, confirm path, verify anywhere, confirm anywhere) that
\* matches anything in the body, wherever the matches of later patterns are;
\* in particular a body with a link under /verify yields the earliest such
\* link; a body that no pattern matches yields None.
C17_FirstPatternWins ==
    (mode = "link" /\ res.done) =>
        /\ \A n \in 1..4 :
             (Hits(n, arg) # {} /\ \A k \in 1..(n - 1) : Hits(k, arg) = {})
                 => res.out = Earliest(n, arg)
        /\ (\A n \in 1..4 : Hits(n, arg) = {}) => res.out = None

\* witness of C17: the body holds a link that only a later pattern matches,
\* then a link under /verify, and the link under /verify was returned
C17_Witness ==
    /\ mode = "link" /\ res.done /\ Len(arg) >= 2
    /\ ~Pattern(1, arg[1]) /\ Pattern(3, arg[1])
    /\ Pattern(1, arg[2])
    /\ res.out = arg[2].url

----------------------------------------------------------------------------
(* Claim C20: the bodies fetched in one round *)

\* the message with a given id
MsgOf(id) == CHOOSE m \in Messages : m.mail_id = id

\* C20 as stated: after one get_email_list request at most one body is
\* fetched, and only of a flagged message.
C20_OneFetchPerRound ==
    mode = "poll" =>
        /\ roundFetches <= 1
        /\ \A k \in DOMAIN fetchedIds : Flagged(MsgOf(fetchedIds[k]))

\* C20, amended: in one round the flagged messages have their bodies fetched
\* one after the other, in the order of the list, until one yields a link: a
\* body is fetched only of a flagged message and only when every body fetched
\* before it in the round yielded no link; a message that is not flagged is
\* never fetched.
C20_FetchesFlaggedUntilLink ==
    mode = "poll" =>
        /\ roundFetches = Len(fetchedIds)
        /\ \A k \in DOMAIN fetchedIds :
             /\ Flagged(MsgOf(fetchedIds[k]))
             /\ (k < Len(fetchedIds) \/ ppc = "scan")
                    => ExtractLink(MsgOf(fetchedIds[k]).mail_body) = None

\* witness of C20: in one round two flagged messages were fetched, the first
\* without a link, the second with the link that is returned
C20_Witness ==
    /\ mode = "poll" /\ ppc = "done"
    /\ roundFetches = 2 /\ fetchedIds = <<"m2", "m4">>
    /\ pollResult = ExtractLink(MsgOf("m4").mail_body)

----------------------------------------------------------------------------
(* Claims C22, C25: the browsers and HTTP sessions of a run *)

\* the invocations whose browser, or whose HTTP session, is open
OpenBrowsers == {i \in 1..Len(frames) : frames[i].browser = "open"}
OpenSessions == {i \in 1..Len(frames) : frames[i].session = "open"}

\* C22: at every moment of a run at most one browser (with its context) and
\* at most one mailbox HTTP session are open.
C22_OneBrowserOneSession ==
    mode = "main" =>
        /\ Cardinality(OpenBrowsers) <= 1
        /\ Cardinality({i \in 1..Len(frames) : frames[i].context = "open"}) <= 1
        /\ Cardinality(OpenSessions) <= 1

\* C25: when the run has returned, whichever way each of its invocations
\* ended, every browser and every HTTP session an invocation opened is closed.
C25_AllClosedAtReturn ==
    (mode = "main" /\ cur = 0) =>
        \A i \in 1..Len(frames) :
            /\ frames[i].pc = "returned"
            /\ frames[i].browser \in {None, "closed"}
            /\ frames[i].context \in {None, "closed"}
            /\ frames[i].session \in {None, "closed"}

\* witness of C25: the run has returned after two invocations, each of which
\* had opened a browser and a session; the first was retried
C25_Witness ==
    /\ mode = "main" /\ cur = 0 /\ Len(frames) = 2
    /\ frames[1].outcome = "retried"
    /\ \A i \in 1..2 : frames[i].browser = "closed" /\ frames[i].session = "closed"

----------------------------------------------------------------------------
(* Claim C23: the password of a RefToolsAutomation *)

\* the invocations that have built their RefToolsAutomation
Built == {i \in 1..Len(frames) : frames[i].password # None}

\* C23: each RefToolsAutomation has the password generated at its
\* construction, which is the only one generated for it; whatever signup has
\* typed into the password and the confirmation field, in any of its
\* attempts, is that password; and a password shown on the console is the one
\* of the invocation whose email is shown with it, typed into both fields.
C23_PasswordGeneratedOnce ==
    mode = "main" =>
        /\ pwCount = Cardinality(Built)
        /\ \A i \in Built :
             /\ frames[i].password = Passwords[Cardinality({j \in Built : j <= i})]
             /\ \A pair \in frames[i].filled : pair[2] = frames[i].password
        /\ \A n \in DOMAIN console :
             console[n].password # None =>
                 \E i \in Built :
                     /\ console[n].email = frames[i].email
                     /\ console[n].password = frames[i].password
                     /\ frames[i].filled = {<<"password", frames[i].password>>,
                                            <<"confirm", frames[i].password>>}

\* witness of C23: the second invocation of a run, built with the second
\* password generated, typed it into both fields and showed it at the end
C23_Witness ==
    /\ mode = "main" /\ cur = 0 /\ Len(frames) = 2
    /\ frames[1].password = Passwords[1] /\ frames[2].password = Passwords[2]
    /\ frames[2].filled = {<<"password", Passwords[2]>>, <<"confirm", Passwords[2]>>}
    /\ \E n \in DOMAIN console :
         console[n].kind = "manual_credentials" /\ console[n].password = Passwords[2]

----------------------------------------------------------------------------
(* Claim C24: the pool fetch_proxies returns *)

\* how often x occurs in a list
Occurrences(list, x) == Cardinality({n \in DOMAIN list : list[n] = x})

\* a source answered: no exception, status 200
Answered(a) == ~a.raises /\ a.status = 200

\* how often x is, blanks at its ends apart, a line of a source that answered
RECURSIVE Served(_, _)
Served(answers, x) ==
    IF answers = <<>> THEN 0
    ELSE (IF Answered(Head(answers))
          THEN Cardinality({n \in DOMAIN Head(answers).lines :
                               Strip[Head(answers).lines[n]] = x})
          ELSE 0) + Served(Tail(answers), x)

\* C24: whatever the two sources do, fetch_proxies returns, and main goes on:
\* the pool holds each non-empty line as often as the sources that answered
\* with status 200 served it, and nothing else; it is empty when none
\* answered, and the invocation then runs without a proxy.
C24_PoolOfAnsweringSources ==
    mode = "main" =>
        /\ FailedAt("fetch") = {}
        /\ \A i \in 1..Len(frames) :
             LET fr == frames[i]
             IN (USE_PROXY /\ fr.pc # "fetch") =>
                  /\ Len(fr.answers) = 2
                  /\ \A x \in {"p1", "p3"} :
                       Occurrences(fr.proxies, x) = Served(fr.answers, x)
                  /\ \A n \in DOMAIN fr.proxies : fr.proxies[n] \in {"p1", "p3"}
                  /\ (\A k \in 1..2 : ~Answered(fr.answers[k])) => fr.proxies = <<>>
                  /\ fr.proxies = <<>> =>
                       /\ fr.current_proxy = None /\ fr.ref_tools_proxy = None
                       /\ fr.failed_at \notin {"fetch"}

\* witness of C24: the first source answered 404 with a line in its text,
\* the second answered 200; the pool is the second's line and the invocation
\* has gone on to run with it
C24_Witness ==
    /\ mode = "main" /\ cur = 1 /\ f.pc = "signup" /\ Len(f.answers) = 2
    /\ f.answers[1].status = 404 /\ f.answers[1].lines # <<>>
    /\ ~f.answers[2].raises
    /\ f.proxies = <<"p3">> /\ f.ref_tools_proxy = "p3"

----------------------------------------------------------------------------
(* C21 *)

\* where a candidate sits on a page: the selector, the index of the element
\* among those the selector finds, and the value attribute (1) or the text (2)
CandidatePositions(page) ==
    {<<n, i, src>> \in (DOMAIN key_selectors) \X (1..2) \X (1..2) :
        ~page.found[n].raises /\ i <= Len(page.found[n].elements)}

\* what the test of the candidate at a position says
CheckAt(page, pos) ==
    LET e == page.found[pos[1]].elements[pos[2]]
    IN IF pos[3] = 1 THEN ValueCheck(e.value) ELSE TextCheck(e.text)

\* the fixed order: selector, then element, then value before text
Before(p, q) ==
    \/ p[1] < q[1]
    \/ p[1] = q[1] /\ p[2] < q[2]
    \/ p[1] = q[1] /\ p[2] = q[2] /\ p[3] < q[3]

AcceptedAt(page) == {pos \in CandidatePositions(page) : CheckAt(page, pos).accepted}

\* a token of the generic pattern at the i-th character of the text, n long
IsToken(text, i, n) ==
    /\ n >= KEY_PATTERN_MIN /\ i >= 1 /\ i + n - 1 <= Len(text)
    /\ \A j \in i..(i + n - 1) : text[j] \in KeyChars
    /\ Boundary(text, i) /\ Boundary(text, i + n)

\* the tokens of the body text, as <<start, length>>
BodyTokens(page) ==
    IF page.body_raises THEN {}
    ELSE {t \in (1..Len(page.body)) \X (1..Len(page.body)) :
            IsToken(page.body, t[1], t[2])}

\* C21: extract_api_key returns the accepted candidate that comes first in the
\* order selector, element index, value before text; when no candidate of a
\* selector is accepted it returns the first token of the body text that
\* matches the generic pattern (the longest one at the earliest start), as it
\* is, without the key-shape test; it returns None only when there is neither
\* (a navigation or a body read that raises counts as finding nothing).
C21_FirstAcceptedThenBodyScan ==
    (mode = "extract" /\ res.done) =>
        LET acc == AcceptedAt(arg)
            toks == BodyTokens(arg)
        IN IF arg.goto_raises THEN res.out = Rejected
           ELSE IF acc # {}
           THEN \E pos \in acc :
                   /\ \A q \in acc : q = pos \/ Before(pos, q)
                   /\ res.out = CheckAt(arg, pos)
           ELSE IF toks # {}
           THEN \E t \in toks :
                   /\ \A u \in toks : t[1] < u[1] \/ (t[1] = u[1] /\ u[2] <= t[2])
                   /\ res.out = Accepted(SubSeq(arg.body, t[1], t[1] + t[2] - 1))
           ELSE res.out = Rejected

\* C21 witness: an element whose value is refused and whose text is accepted
\* came before an element with an accepted value, and its text was returned
C21_Witness ==
    /\ mode = "extract" /\ res.done /\ ~arg.goto_raises
    /\ \E pos \in AcceptedAt(arg) :
          /\ pos[3] = 2
          /\ \A q \in AcceptedAt(arg) : q = pos \/ Before(pos, q)
          /\ \E q \in AcceptedAt(arg) : q[3] = 1
          /\ \E q \in CandidatePositions(arg) : Before(q, pos) /\ q[2] = pos[2] /\ q[1] = pos[1]
          /\ res.out = CheckAt(arg, pos)

============================================================================
